---- MODULE Spec2Model ----
(***************************************************************************)
(* Discord thread tracker (materiapartyfinder): a Cloudflare Worker that   *)
(* polls Discord for active threads and mirrors them into two D1 tables.   *)
(* The module models the reconciliation run of src/src/index.js            *)
(* (clear-then-repopulate, member resolution, tag synchronisation), the   *)
(* earlier upsert-only driver of src/unnamed/part_001 and the channel-list *)
(* driver of src/unnamed/part_002.                                         *)
(*                                                                         *)
(* JavaScript values are tagged records so that null, undefined, strings,  *)
(* numbers and serialized text stay distinct and comparable.               *)
(***************************************************************************)
EXTENDS Integers, Sequences, FiniteSets, TLC

\* ------------------------------------------------------------------------
\* Bounds of the model
\* ------------------------------------------------------------------------
\* Page size of the member listing. The code asks for limit: '1000'
\* (src/src/index.js:29) and tests members.length < 1000 (line 75); the
\* model keeps the two uses equal and scales the number down.
PageSize == 2
\* Largest number of members of the guild (user ids 1..MaxMembers).
MaxMembers == 3
\* Largest number of threads in one active-thread response.
MaxBatch == 3

\* The concurrent invocations of handleScheduled the model keeps state for.
Runs == {1, 2}
\* Invocations that are scheduled when runs do not overlap.
SerialRuns == {1}

\* ------------------------------------------------------------------------
\* JavaScript / SQL values
\* ------------------------------------------------------------------------
Null == [null |-> TRUE]
Undefined == [undefined |-> TRUE]
Str(s) == [str |-> s]
Num(n) == [num |-> n]
Arr(s) == [arr |-> s]
Obj(o) == [obj |-> o]

\* JavaScript truthiness: undefined, null, '' and 0 are falsy; arrays and
\* objects (also empty ones) are truthy.
Truthy(v) == v \notin {Undefined, Null, Str(""), Num(0)}

\* x || null
OrNull(v) == IF Truthy(v) THEN v ELSE Null

\* JSON.stringify(v): the text of a structured value, a value distinct from
\* the structure it was made from.
JSONstringify(v) == [text |-> v]

\* x ? JSON.stringify(x) : null
StringifyOrNull(v) == IF Truthy(v) THEN JSONstringify(v) ELSE Null

\* ------------------------------------------------------------------------
\* The remote: guild members
\* ------------------------------------------------------------------------
\* A snowflake id is a string of digits that the remote orders by number;
\* user ids are the snowflakes 1..MaxMembers and the initial cursor is '0'.
Snowflake(n) == [snowflake |-> n]

\* A member has a per-guild nickname or none, and its user record is
\* present or missing from the member object. The names of user n are the
\* values [nick |-> n] and [username |-> n].
HasNick(uid) == uid % 2 = 1
HasUser(uid) == uid % 3 # 0

Member(uid) ==
  [ user |-> IF HasUser(uid)
             THEN [id |-> Snowflake(uid), username |-> [username |-> uid]]
             ELSE Undefined,
    nick |-> IF HasNick(uid) THEN [nick |-> uid] ELSE Null ]

\* Ascending sequence of the elements of a set of numbers.
RECURSIVE SortedSeq(_)
SortedSeq(S) ==
  IF S = {} THEN << >>
  ELSE LET m == CHOOSE x \in S : \A y \in S : x <= y
       IN <<m>> \o SortedSeq(S \ {m})

\* The guilds the remote may hold: any set of members, listed by user id.
Guilds == { SortedSeq(S) : S \in SUBSET (1..MaxMembers) }

\* GET /guilds/{id}/members?limit=PageSize&after=lastId, served by a remote
\* that honours the cursor: the first PageSize members whose id is above it.
GuildPage(guildUids, after) ==
  LET rest == SelectSeq(guildUids, LAMBDA u : u > after.snowflake)
      n    == IF Len(rest) < PageSize THEN Len(rest) ELSE PageSize
  IN [i \in 1..n |-> Member(rest[i])]

\* Failures of a request to the remote (error.message).
MissingAccess == "Missing Access"
RemoteErrors == {MissingAccess, "Internal Server Error"}

\* error.message.includes('Missing Access')
IncludesMissingAccess(msg) == msg = MissingAccess

\* ------------------------------------------------------------------------
\* The remote: active threads and channel metadata
\* ------------------------------------------------------------------------
\* Raw threads the remote may return. t1 comes in two versions that differ
\* in every field but the id; t2 lacks every optional field but the owner;
\* t3 lacks the owner as well.
Thread1a ==
  [ id |-> Str("t1"), name |-> Str("raid"), topic |-> Str("farm"),
    owner_id |-> Snowflake(1), parent_id |-> Str("c1"),
    member_count |-> Num(2), message_count |-> Num(5),
    available_tags |-> Undefined, applied_tags |-> Arr(<<"g1">>),
    thread_metadata |-> Obj("open") ]
Thread1b ==
  [ id |-> Str("t1"), name |-> Str("raid v2"), topic |-> Str(""),
    owner_id |-> Snowflake(2), parent_id |-> Str("c2"),
    member_count |-> Num(3), message_count |-> Num(0),
    available_tags |-> Arr(<< >>), applied_tags |-> Arr(<<"g2">>),
    thread_metadata |-> Obj("archived") ]
Thread2 ==
  [ id |-> Str("t2"), name |-> Str("trial"), topic |-> Undefined,
    owner_id |-> Snowflake(3), parent_id |-> Str("c2"),
    member_count |-> Num(1), message_count |-> Num(1),
    available_tags |-> Undefined, applied_tags |-> Undefined,
    thread_metadata |-> Undefined ]
Thread3 ==
  [ id |-> Str("t3"), name |-> Str("savage"), topic |-> Undefined,
    owner_id |-> Undefined, parent_id |-> Undefined,
    member_count |-> Num(4), message_count |-> Num(7),
    available_tags |-> Undefined, applied_tags |-> Undefined,
    thread_metadata |-> Undefined ]
Thread4 ==
  [ id |-> Str("t4"), name |-> Str("ultimate"), topic |-> Str("prog"),
    owner_id |-> Snowflake(4), parent_id |-> Null,
    member_count |-> Num(8), message_count |-> Num(9),
    available_tags |-> Undefined, applied_tags |-> Arr(<< >>),
    thread_metadata |-> Obj("open") ]

RawThreads == {Thread1a, Thread1b, Thread2, Thread3, Thread4}

\* True when the threads of a sequence have distinct ids.
DistinctIds(s) == \A i, j \in 1..Len(s) : s[i].id = s[j].id => i = j

\* The values of activeThreads.threads: absent, or a list of threads with
\* distinct ids.
ThreadLists ==
  {Undefined} \cup
  { Arr(s) : s \in { q \in UNION { [1..n -> RawThreads] : n \in 0..MaxBatch } :
                          DistinctIds(q) } }

\* A tag of a forum channel's taxonomy.
TagBug == [id |-> Str("g1"), name |-> Str("bug"), emoji |-> Undefined]
TagBugRenamed ==
  [id |-> Str("g1"), name |-> Str("defect"), emoji |-> [name |-> Str("x")]]
TagHelp == [id |-> Str("g2"), name |-> Str("help"), emoji |-> [name |-> Null]]

\* The channel metadata the remote may return for a channel id: c1 has no
\* taxonomy, the taxonomy of c2 changes over time.
ChannelInfos(channelId) ==
  IF channelId = Str("c1")
  THEN { [available_tags |-> Undefined], [available_tags |-> Arr(<< >>)] }
  ELSE { [available_tags |-> Arr(<<TagBug>>)],
         [available_tags |-> Arr(<<TagBugRenamed, TagHelp>>)] }

\* Failures of a statement of the store (error.message).
StoreErrors == {"D1_ERROR"}

\* ------------------------------------------------------------------------
\* The store (D1)
\* ------------------------------------------------------------------------
\* Columns of discord_threads: the columns the INSERT statements name and
\* the bookkeeping columns created_timestamp and last_updated of
\* src/schema.sql. A column an INSERT does not name is NULL in the inserted
\* row; the model does not enforce NOT NULL.
ThreadColumns ==
  { "thread_id", "thread_name", "topic", "owner_id", "owner_nickname",
    "parent_id", "member_count", "message_count", "available_tags",
    "applied_tags", "thread_metadata", "created_timestamp", "last_updated" }

\* The row an INSERT builds from the columns it names and their values.
InsertedRow(named) ==
  [c \in ThreadColumns |-> IF c \in DOMAIN named THEN named[c] ELSE Null]

\* D1 rejects a statement that binds undefined (D1_TYPE_ERROR).
BindOK(named) == \A c \in DOMAIN named : named[c] # Undefined

\* An upsert that replaces the content of the table by the new row.
UpsertThreadOnly(table, row, updated) == {row}

\* INSERT ... ON CONFLICT (thread_id) DO UPDATE SET c = excluded.c for the
\* columns c of updated: one atomic statement.
UpsertThread(table, row, updated) ==
  IF \E old \in table : old.thread_id = row.thread_id
  THEN { IF old.thread_id = row.thread_id
         THEN [c \in ThreadColumns |-> IF c \in updated THEN row[c] ELSE old[c]]
         ELSE old : old \in table }
  ELSE table \cup {row}

\* A DELETE that removes nothing.
DeleteNone(table) == table

\* DELETE FROM <table>, without a WHERE clause.
DeleteAll(table) == {}

\* An upsert that replaces the rows of the tag's channel by the new row.
UpsertTagOfChannel(table, row) ==
  { old \in table : old.parent_id # row.parent_id } \cup {row}

\* INSERT INTO discord_channel_tags ... ON CONFLICT (parent_id, tag_id)
\* DO UPDATE SET tag_name, tag_emoji.
UpsertTag(table, row) ==
  { old \in table : ~(old.parent_id = row.parent_id /\ old.tag_id = row.tag_id) }
    \cup {row}

\* ------------------------------------------------------------------------
\* processThread of src/src/index.js
\* ------------------------------------------------------------------------
\* A lookup that falls back to the owner's id when the map has no entry.
OwnerNicknameOrId(thread, memberMap) ==
  IF Truthy(thread.owner_id) /\ thread.owner_id \in DOMAIN memberMap
  THEN memberMap[thread.owner_id]
  ELSE OrNull(thread.owner_id)

\* owner_id && memberMap[owner_id] ? memberMap[owner_id] : null
OwnerNickname(thread, memberMap) ==
  IF Truthy(thread.owner_id) /\ thread.owner_id \in DOMAIN memberMap
  THEN memberMap[thread.owner_id]
  ELSE Null

\* The columns the INSERT names and the values bound to them.
ThreadParams(thread, memberMap) ==
  [ thread_id       |-> thread.id,
    thread_name     |-> thread.name,
    topic           |-> OrNull(thread.topic),
    owner_id        |-> thread.owner_id,
    owner_nickname  |-> OwnerNickname(thread, memberMap),
    parent_id       |-> OrNull(thread.parent_id),
    member_count    |-> thread.member_count,
    message_count   |-> thread.message_count,
    available_tags  |-> StringifyOrNull(thread.available_tags),
    applied_tags    |-> StringifyOrNull(thread.applied_tags),
    thread_metadata |-> StringifyOrNull(thread.thread_metadata) ]

\* The columns of the DO UPDATE SET clause.
UpdatedColumns ==
  { "thread_name", "topic", "owner_id", "owner_nickname", "parent_id",
    "member_count", "message_count", "available_tags", "applied_tags",
    "thread_metadata" }

\* ------------------------------------------------------------------------
\* fetchAllGuildMembers: one page
\* ------------------------------------------------------------------------
\* memberMap[member.user.id] = member.nick || member.user.username, for
\* the members i..Len(members) that have a user record.
RECURSIVE StoreMembers(_, _, _)
StoreMembers(memberMap, members, i) ==
  IF i > Len(members) THEN memberMap
  ELSE LET member == members[i]
           next   == IF Truthy(member.user)
                     THEN [k \in DOMAIN memberMap \cup {member.user.id} |->
                             IF k = member.user.id
                             THEN (IF Truthy(member.nick) THEN member.nick
                                   ELSE member.user.username)
                             ELSE memberMap[k]]
                     ELSE memberMap
       IN StoreMembers(next, members, i + 1)

\* ------------------------------------------------------------------------
\* State
\* ------------------------------------------------------------------------
VARIABLES
  discord_threads,       \* rows of the table discord_threads
  discord_channel_tags,  \* rows of the table discord_channel_tags
  run                    \* per invocation: the locals of handleScheduled

vars == <<discord_threads, discord_channel_tags, run>>

NoResults == [success |-> TRUE, threadsProcessed |-> 0, errors |-> << >>]

\* The locals of an invocation that has not started. pc is the await the
\* invocation is suspended at; guild is the member list the remote serves
\* while the members are listed; record is the normalized thread bound to
\* the latest INSERT; response is the answer of the fetch handler. The
\* fields cleared, failed, pagesFetched, written and channels record what
\* happened in the run: whether the clear step deleted a thread row, the
\* calls that failed, the member pages stored, the thread rows upserted,
\* the channels whose metadata was requested, each with the taxonomy the
\* remote returned, and the member pages requested while the members are
\* listed.
Idle ==
  [ pc              |-> "idle",
    results         |-> NoResults,
    guild           |-> << >>,
    lastId          |-> Snowflake(0),
    hasMore         |-> TRUE,
    memberMap       |-> << >>,
    activeThreads   |-> << >>,
    i               |-> 1,
    uniqueParentIds |-> << >>,
    ch              |-> 1,
    tags            |-> << >>,
    tg              |-> 1,
    cleared         |-> FALSE,
    failed          |-> {},
    pagesFetched    |-> 0,
    written         |-> << >>,
    record          |-> << >>,
    channels        |-> << >>,
    requests        |-> << >>,
    forumChannelIds |-> << >>,
    response        |-> << >> ]

Init ==
  /\ discord_threads = {}
  /\ discord_channel_tags = {}
  /\ run = [r \in Runs |-> Idle]

\* A catch that records the failure and leaves success as it is.
CaughtKeepsSuccess(l, msg, what) ==
  [l EXCEPT !.results.errors = Append(@, [message |-> Str(msg)]),
            !.failed = @ \cup {what},
            !.pc = "done"]

\* A catch that logs the failure and ends the run.
CaughtAndLogged(l, msg, what) ==
  [l EXCEPT !.failed = @ \cup {what}, !.pc = "done"]

\* catch (error) of handleScheduled: the failure is recorded and the run
\* ends.
Caught(l, msg, what) ==
  [l EXCEPT !.results = [@ EXCEPT !.success = FALSE,
                                  !.errors = Append(@, [message |-> Str(msg)])],
            !.failed = @ \cup {what},
            !.pc = "done"]

\* ------------------------------------------------------------------------
\* handleScheduled of src/src/index.js
\* ------------------------------------------------------------------------
\* The invocation starts: results is initialised and the REST client built.
StartRun(r) ==
  /\ run[r].pc = "idle"
  /\ \E g \in Guilds :
       run' = [run EXCEPT ![r] = [Idle EXCEPT !.pc = "clearThreads", !.guild = g]]
  /\ UNCHANGED <<discord_threads, discord_channel_tags>>

\* Building the client throws.
ClientFail(r) ==
  /\ run[r].pc = "idle"
  /\ run' = [run EXCEPT ![r] = Caught(Idle, "Invalid client", "client")]
  /\ UNCHANGED <<discord_threads, discord_channel_tags>>

\* DELETE FROM discord_threads succeeds.
ClearThreads(r) ==
  /\ run[r].pc = "clearThreads"
  /\ discord_threads' = DeleteAll(discord_threads)
  /\ run' = [run EXCEPT ![r].pc = "clearTags",
                        ![r].cleared = (discord_threads # {})]
  /\ UNCHANGED discord_channel_tags

\* A failure of DELETE FROM discord_threads that ends the run.
ClearThreadsFailFatal(r) ==
  /\ run[r].pc = "clearThreads"
  /\ run' = [run EXCEPT ![r] = Caught(@, "D1_ERROR", "clear")]
  /\ UNCHANGED <<discord_threads, discord_channel_tags>>

\* DELETE FROM discord_threads fails: the inner catch logs it, the second
\* DELETE is skipped and the run goes on.
ClearThreadsFail(r) ==
  /\ run[r].pc = "clearThreads"
  /\ run' = [run EXCEPT ![r].pc = "members", ![r].failed = @ \cup {"clear"}]
  /\ UNCHANGED <<discord_threads, discord_channel_tags>>

\* DELETE FROM discord_channel_tags succeeds.
ClearTags(r) ==
  /\ run[r].pc = "clearTags"
  /\ discord_channel_tags' = DeleteAll(discord_channel_tags)
  /\ run' = [run EXCEPT ![r].pc = "members"]
  /\ UNCHANGED discord_threads

\* DELETE FROM discord_channel_tags fails.
ClearTagsFail(r) ==
  /\ run[r].pc = "clearTags"
  /\ run' = [run EXCEPT ![r].pc = "members", ![r].failed = @ \cup {"clearTags"}]
  /\ UNCHANGED <<discord_threads, discord_channel_tags>>

\* The locals after the while loop of fetchAllGuildMembers has ended: the
\* function returns memberMap and handleScheduled goes on to the fetch of
\* the active threads.
MembersReturn(l) == [l EXCEPT !.hasMore = FALSE, !.pc = "threads"]

\* new URLSearchParams({ limit: '1000', after: lastId })
MemberRequest(l) == [limit |-> PageSize, after |-> l.lastId]

\* The locals with the request of the iteration noted.
Asked(l) == [l EXCEPT !.requests = Append(@, MemberRequest(l))]

\* A loop body that takes the cursor from the first member of the page.
MemberPageFromFirst(l, members) ==
  IF Len(members) = 0
  THEN [l EXCEPT !.hasMore = FALSE, !.pc = "threads"]
  ELSE IF ~Truthy(members[1].user)
  THEN [l EXCEPT !.failed = @ \cup {"memberUser"},
                 !.hasMore = FALSE, !.pc = "threads"]
  ELSE LET stored == [l EXCEPT !.lastId = members[1].user.id,
                               !.memberMap = StoreMembers(@, members, 1),
                               !.pagesFetched = @ + 1]
       IN IF Len(members) < PageSize
          THEN [stored EXCEPT !.hasMore = FALSE, !.pc = "threads"]
          ELSE stored

\* The body of the while loop for a page the remote answered with.
MemberPage(l, members) ==
  IF Len(members) = 0
  THEN MembersReturn(l)
  ELSE IF ~Truthy(members[Len(members)].user)
  THEN \* members[members.length - 1].user.id throws a TypeError, which the
       \* catch of the loop handles as a failure other than Missing Access
       MembersReturn([l EXCEPT !.failed = @ \cup {"memberUser"}])
  ELSE LET stored == [l EXCEPT !.lastId = members[Len(members)].user.id,
                               !.memberMap = StoreMembers(@, members, 1),
                               !.pagesFetched = @ + 1]
       IN IF Len(members) < PageSize THEN MembersReturn(stored) ELSE stored

\* One iteration of the member loop whose request succeeds.
FetchMembersPage(r) ==
  /\ run[r].pc = "members"
  /\ run[r].hasMore
  /\ run' = [run EXCEPT ![r] =
                 MemberPage(Asked(@), GuildPage(@.guild, MemberRequest(@).after))]
  /\ UNCHANGED <<discord_threads, discord_channel_tags>>

\* One iteration whose response is not an array: members = [].
FetchMembersNotArray(r) ==
  /\ run[r].pc = "members"
  /\ run[r].hasMore
  /\ run' = [run EXCEPT ![r] =
                 MemberPage([Asked(run[r]) EXCEPT !.failed = @ \cup {"notArray"}],
                            << >>)]
  /\ UNCHANGED <<discord_threads, discord_channel_tags>>

\* A catch of the member loop that re-throws to handleScheduled.
MembersCatchRethrow(l, msg) ==
  Caught(l, msg, IF IncludesMissingAccess(msg) THEN "membersAccess"
                                               ELSE "members")

\* catch (error) of the member loop: both branches log, set hasMore to
\* false and break.
MembersCatch(l, msg) ==
  MembersReturn([l EXCEPT !.failed = @ \cup
                   {IF IncludesMissingAccess(msg) THEN "membersAccess"
                                                  ELSE "members"}])

\* One iteration whose request fails.
FetchMembersFail(r) ==
  /\ run[r].pc = "members"
  /\ run[r].hasMore
  /\ \E msg \in RemoteErrors :
       run' = [run EXCEPT ![r] = MembersCatch(Asked(@), msg)]
  /\ UNCHANGED <<discord_threads, discord_channel_tags>>

\* uniqueParentIds.add(id): a Set keeps insertion order and no duplicate.
SetAdd(s, id) == IF \E k \in 1..Len(s) : s[k] = id THEN s ELSE Append(s, id)

\* The locals once the per-thread loop is over: processChannelTags is
\* called when uniqueParentIds.size > 0, else the run is complete.
AfterLoop(l) ==
  IF Len(l.uniqueParentIds) > 0
  THEN [l EXCEPT !.pc = "channel", !.ch = 1]
  ELSE [l EXCEPT !.pc = "done"]

\* rest.get(Routes.guildActiveThreads(guildId)) succeeds.
FetchActiveThreads(r) ==
  /\ run[r].pc = "threads"
  /\ \E threads \in ThreadLists :
       run' = [run EXCEPT ![r] =
                 IF Truthy(threads) /\ Len(threads.arr) > 0
                 THEN [@ EXCEPT !.activeThreads = threads.arr, !.i = 1,
                                !.guild = << >>, !.requests = << >>,
                                !.pc = "loop"]
                 ELSE AfterLoop([@ EXCEPT !.guild = << >>, !.requests = << >>])]
  /\ UNCHANGED <<discord_threads, discord_channel_tags>>

\* rest.get(Routes.guildActiveThreads(guildId)) fails.
FetchActiveThreadsFail(r) ==
  /\ run[r].pc = "threads"
  /\ \E msg \in RemoteErrors :
       run' = [run EXCEPT ![r] = Caught([@ EXCEPT !.guild = << >>, !.requests = << >>], msg, "fetch")]
  /\ UNCHANGED <<discord_threads, discord_channel_tags>>

\* One iteration of the per-thread loop whose upsert succeeds.
ProcessThread(r) ==
  LET l      == run[r]
      thread == l.activeThreads[l.i]
      named  == ThreadParams(thread, l.memberMap)
      row    == InsertedRow(named)
      next   == [l EXCEPT !.uniqueParentIds =
                              IF Truthy(thread.parent_id)
                              THEN SetAdd(@, thread.parent_id) ELSE @,
                          !.results.threadsProcessed = @ + 1,
                          !.written = Append(@, row),
                          !.record = named,
                          !.i = @ + 1]
  IN /\ l.pc = "loop"
     /\ BindOK(named)
     /\ discord_threads' = UpsertThread(discord_threads, row, UpdatedColumns)
     /\ run' = [run EXCEPT ![r] =
                  IF next.i > Len(next.activeThreads) THEN AfterLoop(next)
                                                      ELSE next]
     /\ UNCHANGED discord_channel_tags

\* One iteration whose upsert fails: processThread logs and re-throws, and
\* the catch of handleScheduled ends the run.
ProcessThreadFail(r) ==
  /\ run[r].pc = "loop"
  /\ \E msg \in StoreErrors :
       run' = [run EXCEPT ![r] =
                 Caught([run[r] EXCEPT !.record =
                           ThreadParams(run[r].activeThreads[run[r].i],
                                        run[r].memberMap)],
                        msg, "store")]
  /\ UNCHANGED <<discord_threads, discord_channel_tags>>

\* ------------------------------------------------------------------------
\* processChannelTags of src/src/index.js
\* ------------------------------------------------------------------------
\* An end of a channel's iteration that returns from processChannelTags.
ReturnAfterChannel(l) == [l EXCEPT !.tags = << >>, !.tg = 1, !.pc = "done"]

\* The locals once a channel is finished: the next channel of the set, or
\* the end of processChannelTags and of the try block.
NextChannel(l) ==
  IF l.ch < Len(l.uniqueParentIds)
  THEN [l EXCEPT !.ch = @ + 1, !.tags = << >>, !.tg = 1, !.pc = "channel"]
  ELSE [l EXCEPT !.tags = << >>, !.tg = 1, !.pc = "done"]

\* The locals with the request for the metadata of the current channel
\* noted, together with the taxonomy the remote answered with (none when
\* the request failed or the channel has no tags).
Requested(l, taxonomy, ok) ==
  [l EXCEPT !.channels = Append(@, [ id |-> l.uniqueParentIds[l.ch],
                                     available_tags |-> taxonomy,
                                     ok |-> ok ])]

\* A catch of the channel that re-throws to handleScheduled.
ChannelCatchRethrow(l, what) == Caught(l, "Unknown Channel", what)

\* catch (error) of the loop over the channels: logged, next channel.
ChannelCatch(l, what) == NextChannel([l EXCEPT !.failed = @ \cup {what}])

\* rest.get(Routes.channel(channelId)) succeeds.
FetchChannel(r) ==
  /\ run[r].pc = "channel"
  /\ \E channelInfo \in ChannelInfos(run[r].uniqueParentIds[run[r].ch]) :
       run' = [run EXCEPT ![r] =
                 IF Truthy(channelInfo.available_tags)
                    /\ Len(channelInfo.available_tags.arr) > 0
                 THEN [Requested(@, channelInfo.available_tags.arr, TRUE)
                         EXCEPT !.tags = channelInfo.available_tags.arr,
                                !.tg = 1, !.pc = "tag"]
                 ELSE NextChannel(Requested(@, << >>, TRUE))]
  /\ UNCHANGED <<discord_threads, discord_channel_tags>>

\* rest.get(Routes.channel(channelId)) fails: logged, next channel.
FetchChannelFail(r) ==
  /\ run[r].pc = "channel"
  /\ run' = [run EXCEPT ![r] = ChannelCatch(Requested(run[r], << >>, FALSE), "channel")]
  /\ UNCHANGED <<discord_threads, discord_channel_tags>>

\* An emoji name that is the empty string for a tag without emoji.
EmojiInfoOrEmpty(tag) ==
  IF Truthy(tag.emoji) THEN OrNull(tag.emoji.name) ELSE Str("")

\* emoji ? (emoji.name || null) : null
EmojiInfo(tag) == IF Truthy(tag.emoji) THEN OrNull(tag.emoji.name) ELSE Null

\* The upsert of one tag of the channel succeeds.
StoreTag(r) ==
  LET l   == run[r]
      tag == l.tags[l.tg]
      row == [ parent_id |-> l.uniqueParentIds[l.ch], tag_id |-> tag.id,
               tag_name |-> tag.name, tag_emoji |-> EmojiInfo(tag) ]
  IN /\ l.pc = "tag"
     /\ discord_channel_tags' = UpsertTag(discord_channel_tags, row)
     /\ run' = [run EXCEPT ![r] =
                  IF l.tg < Len(l.tags) THEN [@ EXCEPT !.tg = @ + 1]
                                        ELSE NextChannel(@)]
     /\ UNCHANGED discord_threads

\* The upsert of one tag fails: the catch of the channel logs it and the
\* remaining tags of the channel are skipped.
StoreTagFail(r) ==
  /\ run[r].pc = "tag"
  /\ run' = [run EXCEPT ![r] = ChannelCatch(@, "tag")]
  /\ UNCHANGED <<discord_threads, discord_channel_tags>>

\* An answer of the fetch handler that reports a failed run as an error.
FetchResponseByOutcome(result) ==
  IF result.success
  THEN [status |-> 200, body |-> JSONstringify(result)]
  ELSE [status |-> 500, body |-> JSONstringify([error |-> result.errors])]

\* new Response(JSON.stringify(result), { headers }) of the fetch handler:
\* the status defaults to 200.
FetchResponse(result) == [status |-> 200, body |-> JSONstringify(result)]

\* handleScheduled returns results to the scheduled handler, which passed
\* the promise to ctx.waitUntil; or the fetch handler has answered. The
\* invocation is over.
Return(r) ==
  /\ run[r].pc \in {"done", "responded"}
  /\ run' = [run EXCEPT ![r] = Idle]
  /\ UNCHANGED <<discord_threads, discord_channel_tags>>

\* handleScheduled returns results to the fetch handler, which answers
\* with them. handleScheduled does not read which handler awaits it, so
\* the handler is known when the result is returned; the other locals of
\* handleScheduled are gone by then.
Respond(r) ==
  /\ run[r].pc = "done"
  /\ run' = [run EXCEPT ![r] =
                 [Idle EXCEPT !.pc = "responded",
                              !.results = run[r].results,
                              !.response = FetchResponse(run[r].results)]]
  /\ UNCHANGED <<discord_threads, discord_channel_tags>>

Step(r) ==
  \/ StartRun(r)
  \/ ClientFail(r)
  \/ ClearThreads(r)
  \/ ClearThreadsFail(r)
  \/ ClearTags(r)
  \/ ClearTagsFail(r)
  \/ FetchMembersPage(r)
  \/ FetchMembersNotArray(r)
  \/ FetchMembersFail(r)
  \/ FetchActiveThreads(r)
  \/ FetchActiveThreadsFail(r)
  \/ ProcessThread(r)
  \/ ProcessThreadFail(r)
  \/ FetchChannel(r)
  \/ FetchChannelFail(r)
  \/ StoreTag(r)
  \/ StoreTagFail(r)
  \/ Return(r)
  \/ Respond(r)

\* ------------------------------------------------------------------------
\* The upsert-only driver of src/unnamed/part_001
\* ------------------------------------------------------------------------
\* The columns its INSERT names and the values bound to them.
ThreadParams001(thread) ==
  [ thread_id       |-> thread.id,
    thread_name     |-> thread.name,
    topic           |-> OrNull(thread.topic),
    owner_id        |-> thread.owner_id,
    parent_id       |-> OrNull(thread.parent_id),
    member_count    |-> thread.member_count,
    message_count   |-> thread.message_count,
    available_tags  |-> StringifyOrNull(thread.available_tags),
    applied_tags    |-> StringifyOrNull(thread.applied_tags),
    thread_metadata |-> StringifyOrNull(thread.thread_metadata) ]

\* The columns of its DO UPDATE SET clause: owner_id is not among them.
UpdatedColumns001 ==
  { "thread_name", "topic", "parent_id", "member_count", "message_count",
    "available_tags", "applied_tags", "thread_metadata" }

\* The invocation starts: results is initialised and the REST client built.
StartRun001(r) ==
  /\ run[r].pc = "idle"
  /\ run' = [run EXCEPT ![r] = [Idle EXCEPT !.pc = "threads001"]]
  /\ UNCHANGED <<discord_threads, discord_channel_tags>>

\* Building the client throws.
ClientFail001(r) ==
  /\ run[r].pc = "idle"
  /\ run' = [run EXCEPT ![r] = Caught(Idle, "Invalid client", "client")]
  /\ UNCHANGED <<discord_threads, discord_channel_tags>>

\* rest.get(Routes.guildActiveThreads(guildId)) succeeds.
FetchActiveThreads001(r) ==
  /\ run[r].pc = "threads001"
  /\ \E threads \in ThreadLists :
       run' = [run EXCEPT ![r] =
                 IF Truthy(threads) /\ Len(threads.arr) > 0
                 THEN [@ EXCEPT !.activeThreads = threads.arr, !.i = 1,
                                !.pc = "loop001"]
                 ELSE [@ EXCEPT !.pc = "done"]]
  /\ UNCHANGED <<discord_threads, discord_channel_tags>>

\* rest.get(Routes.guildActiveThreads(guildId)) fails.
FetchActiveThreadsFail001(r) ==
  /\ run[r].pc = "threads001"
  /\ \E msg \in RemoteErrors :
       run' = [run EXCEPT ![r] = Caught(@, msg, "fetch")]
  /\ UNCHANGED <<discord_threads, discord_channel_tags>>

\* One iteration of the per-thread loop whose upsert succeeds.
ProcessThread001(r) ==
  LET l      == run[r]
      thread == l.activeThreads[l.i]
      named  == ThreadParams001(thread)
      row    == InsertedRow(named)
      next   == [l EXCEPT !.results.threadsProcessed = @ + 1,
                          !.written = Append(@, row),
                          !.record = named,
                          !.i = @ + 1]
  IN /\ l.pc = "loop001"
     /\ BindOK(named)
     /\ discord_threads' = UpsertThread(discord_threads, row, UpdatedColumns001)
     /\ run' = [run EXCEPT ![r] =
                  IF next.i > Len(next.activeThreads)
                  THEN [next EXCEPT !.pc = "done"] ELSE next]
     /\ UNCHANGED discord_channel_tags

\* One iteration whose upsert fails: the catch of handleScheduled ends the
\* run.
ProcessThreadFail001(r) ==
  /\ run[r].pc = "loop001"
  /\ \E msg \in StoreErrors :
       run' = [run EXCEPT ![r] =
                 Caught([run[r] EXCEPT !.record =
                           ThreadParams001(run[r].activeThreads[run[r].i])],
                        msg, "store")]
  /\ UNCHANGED <<discord_threads, discord_channel_tags>>

Step001(r) ==
  \/ StartRun001(r)
  \/ ClientFail001(r)
  \/ FetchActiveThreads001(r)
  \/ FetchActiveThreadsFail001(r)
  \/ ProcessThread001(r)
  \/ ProcessThreadFail001(r)
  \/ Return(r)
  \/ Respond(r)

\* Runs of src/unnamed/part_001 that do not overlap.
Next001 == \E r \in SerialRuns : Step001(r)

SpecUpsert == Init /\ [][Next001]_vars

\* ------------------------------------------------------------------------
\* The channel-list driver of src/unnamed/part_002
\* ------------------------------------------------------------------------
\* Largest number of configured forum channels.
MaxChannels == 2
\* Largest number of threads in the response for one channel.
MaxChannelThreads == 2
\* Largest value of the clock.
MaxTime == 1

\* env.DISCORD_FORUM_CHANNEL_IDS.split(',').map(id => id.trim()): at least
\* one id, and an id may be listed twice.
ForumChannelLists ==
  UNION { [1..n -> {Str("c1"), Str("c2")}] : n \in 1..MaxChannels }

\* A raw thread that carries a created_timestamp.
Stamped(thread) ==
  [ f \in DOMAIN thread \cup {"created_timestamp"} |->
      IF f = "created_timestamp" THEN Num(1) ELSE thread[f] ]

\* The responses of rest.get(Routes.channelThreads(channelId)) that can be
\* iterated: lists of threads with distinct ids. t2 carries neither
\* created_timestamp nor applied_tags.
ThreadLists002 ==
  { q \in UNION { [1..n -> { Stamped(Thread1a), Stamped(Thread1b), Thread2 }] :
                    n \in 0..MaxChannelThreads } :
      DistinctIds(q) }

\* Failures of the try block of one channel before the first thread: the
\* request fails, or the response cannot be iterated.
ChannelThreadsErrors == RemoteErrors \cup {"activeThreads is not iterable"}

\* A field of a destructured thread: undefined when the thread lacks it.
Field(thread, f) == IF f \in DOMAIN thread THEN thread[f] ELSE Undefined

\* JSON.stringify(v): undefined for undefined.
Stringify(v) == IF v = Undefined THEN Undefined ELSE JSONstringify(v)

\* The columns its INSERT names and the values bound to them.
ThreadParams002(thread, now) ==
  [ thread_id         |-> thread.id,
    thread_name       |-> thread.name,
    owner_id          |-> Field(thread, "owner_id"),
    created_timestamp |-> Field(thread, "created_timestamp"),
    member_count      |-> Field(thread, "member_count"),
    message_count     |-> Field(thread, "message_count"),
    applied_tags      |-> Stringify(Field(thread, "applied_tags")),
    last_updated      |-> Num(now) ]

\* The columns of its DO UPDATE SET clause.
UpdatedColumns002 ==
  { "thread_name", "member_count", "message_count", "applied_tags",
    "last_updated" }

\* The invocation starts: results is initialised, the REST client built and
\* the list of forum channels parsed.
StartRun002(r) ==
  /\ run[r].pc = "idle"
  /\ \E ids \in ForumChannelLists :
       run' = [run EXCEPT ![r] = [Idle EXCEPT !.pc = "channel002",
                                              !.forumChannelIds = ids]]
  /\ UNCHANGED <<discord_threads, discord_channel_tags>>

\* Building the client or parsing the list throws.
ClientFail002(r) ==
  /\ run[r].pc = "idle"
  /\ run' = [run EXCEPT ![r] = Caught(Idle, "Invalid client", "client")]
  /\ UNCHANGED <<discord_threads, discord_channel_tags>>

\* The locals once a channel is finished: the next channel of the list, or
\* the end of the loop and of the try block.
NextChannel002(l) ==
  IF l.ch < Len(l.forumChannelIds)
  THEN [l EXCEPT !.ch = @ + 1, !.activeThreads = << >>, !.i = 1,
                 !.pc = "channel002"]
  ELSE [l EXCEPT !.activeThreads = << >>, !.i = 1, !.pc = "done"]

\* The locals with the request for the threads of the current channel
\* noted.
Asked002(l) ==
  [l EXCEPT !.channels = Append(@, [id |-> l.forumChannelIds[l.ch], ok |-> TRUE])]

\* A catch of the channel that ends the run like the outer catch.
ChannelCatchFatal002(l, msg, what) ==
  Caught([l EXCEPT !.channels[l.ch].ok = FALSE], msg, what)

\* catch (error) of the loop over the channels: the channel and the
\* message are pushed to errors, next channel.
ChannelCatch002(l, msg, what) ==
  NextChannel002(
    [l EXCEPT !.results.errors =
                Append(@, [ channelId |-> l.forumChannelIds[l.ch],
                            message   |-> Str(msg) ]),
              !.failed = @ \cup {what},
              !.channels[l.ch].ok = FALSE])

\* rest.get(Routes.channelThreads(channelId)) succeeds.
FetchChannelThreads002(r) ==
  /\ run[r].pc = "channel002"
  /\ \E threads \in ThreadLists002 :
       run' = [run EXCEPT ![r] =
                 IF Len(threads) > 0
                 THEN [Asked002(@) EXCEPT !.activeThreads = threads, !.i = 1,
                                          !.pc = "loop002"]
                 ELSE NextChannel002(Asked002(@))]
  /\ UNCHANGED <<discord_threads, discord_channel_tags>>

\* rest.get(Routes.channelThreads(channelId)) fails, or its response
\* cannot be iterated.
FetchChannelThreadsFail002(r) ==
  /\ run[r].pc = "channel002"
  /\ \E msg \in ChannelThreadsErrors :
       run' = [run EXCEPT ![r] =
                 ChannelCatch002(Asked002(run[r]), msg, "channelThreads")]
  /\ UNCHANGED <<discord_threads, discord_channel_tags>>

\* One iteration of the per-thread loop whose upsert succeeds.
ProcessThread002(r) ==
  LET l      == run[r]
      thread == l.activeThreads[l.i]
  IN /\ l.pc = "loop002"
     /\ \E now \in 1..MaxTime :
          LET named == ThreadParams002(thread, now)
              row   == InsertedRow(named)
              next  == [l EXCEPT !.results.threadsProcessed = @ + 1,
                                 !.written = Append(@, row),
                                 !.record = named,
                                 !.i = @ + 1]
          IN /\ BindOK(named)
             /\ discord_threads' =
                  UpsertThread(discord_threads, row, UpdatedColumns002)
             /\ run' = [run EXCEPT ![r] =
                          IF next.i > Len(next.activeThreads)
                          THEN NextChannel002(next) ELSE next]
     /\ UNCHANGED discord_channel_tags

\* One iteration whose upsert fails: processThread re-throws to the catch
\* of the channel, and the remaining threads of the channel are skipped.
ProcessThreadFail002(r) ==
  /\ run[r].pc = "loop002"
  /\ \E msg \in StoreErrors, now \in 1..MaxTime :
       run' = [run EXCEPT ![r] =
                 ChannelCatch002(
                   [run[r] EXCEPT !.record =
                      ThreadParams002(run[r].activeThreads[run[r].i], now)],
                   msg, "store")]
  /\ UNCHANGED <<discord_threads, discord_channel_tags>>

Step002(r) ==
  \/ StartRun002(r)
  \/ ClientFail002(r)
  \/ FetchChannelThreads002(r)
  \/ FetchChannelThreadsFail002(r)
  \/ ProcessThread002(r)
  \/ ProcessThreadFail002(r)
  \/ Return(r)
  \/ Respond(r)

\* Runs of src/unnamed/part_002 that do not overlap.
Next002 == \E r \in SerialRuns : Step002(r)

SpecChannels == Init /\ [][Next002]_vars

\* Runs of src/src/index.js that do not overlap.
Next == \E r \in SerialRuns : Step(r)

Spec == Init /\ [][Next]_vars

\* ------------------------------------------------------------------------
\* Overlapping invocations
\* ------------------------------------------------------------------------
\* Nothing serializes the invocations: scheduled() and fetch() each call
\* handleScheduled, and a second invocation can start while the first is
\* suspended at an await. The statements of the two interleave at the
\* awaits; each statement of the store is atomic. Here no call fails, and
\* the guilds and fetches are the small ones.
OverlapMembers == 1
OverlapBatch == 2

StepOverlap(r) ==
  /\ \/ StartRun(r)
     \/ ClearThreads(r)
     \/ ClearTags(r)
     \/ FetchMembersPage(r)
     \/ FetchActiveThreads(r)
     \/ ProcessThread(r)
     \/ FetchChannel(r)
     \/ StoreTag(r)
     \/ Return(r)
  /\ \A k \in 1..Len(run'[r].guild) : run'[r].guild[k] <= OverlapMembers
  /\ Len(run'[r].activeThreads) <= OverlapBatch

NextOverlap == \E r \in Runs : StepOverlap(r)

SpecOverlap == Init /\ [][NextOverlap]_vars

TypeOK ==
  /\ \A r \in Runs : run[r].pc \in
       { "idle", "clearThreads", "clearTags", "members", "threads", "loop",
         "channel", "tag", "done", "responded", "threads001", "loop001", "channel002", "loop002" }
  /\ \A row \in discord_threads : DOMAIN row = ThreadColumns

\* ------------------------------------------------------------------------
\* Properties
\* ------------------------------------------------------------------------
\* The run r has returned and the upsert of one of its threads failed; the
\* loop index i is still the position of that thread.
StoreFailed(r) == run[r].pc = "done" /\ "store" \in run[r].failed

\* The thread at position j of the batch of run r was upserted by the run.
Upserted(r, j) ==
  \E k \in 1..Len(run[r].written) :
    run[r].written[k].thread_id = run[r].activeThreads[j].id

\* C1: when the store write of one thread of the batch fails, every later
\* thread of the batch is still upserted by the run.
C1_LaterThreadsUpserted ==
  \A r \in Runs :
    StoreFailed(r) =>
      \A j \in 1..Len(run[r].activeThreads) : j > run[r].i => Upserted(r, j)

\* C2: a returned result has success = false only if building the client
\* or the active-thread fetch failed.
C2_SuccessFalseOnlyOutsideLoop ==
  \A r \in Runs :
    (run[r].pc = "done" /\ ~run[r].results.success) =>
      run[r].failed \cap {"client", "fetch"} # {}

\* C3: for the thread whose store write failed, errors holds an entry with
\* the thread's id and the failure message, and threadsProcessed counts
\* the upserted threads only.
C3_ErrorCarriesThreadId ==
  \A r \in Runs :
    StoreFailed(r) =>
      /\ \E k \in 1..Len(run[r].results.errors) :
           LET e == run[r].results.errors[k]
           IN /\ \E f \in DOMAIN e : e[f] = run[r].activeThreads[run[r].i].id
              /\ e.message \in { Str(m) : m \in StoreErrors }
      /\ run[r].results.threadsProcessed = Len(run[r].written)

\* The row handleScheduled stores for a thread, given the member map.
StoredRow(thread, memberMap) == InsertedRow(ThreadParams(thread, memberMap))

\* The table holds one row per thread of the fetch of run r, and no other.
MirrorsFetch(r) ==
  discord_threads =
    { StoredRow(run[r].activeThreads[j], run[r].memberMap) :
        j \in 1..Len(run[r].activeThreads) }

FetchedColumns == ThreadColumns \ {"created_timestamp", "last_updated"}

\* C5: discord_threads holds at most one row per thread_id, and the row of
\* a thread carries, in every column, the values of the latest upsert of
\* that thread.
C5_OneRowLatestValues ==
  /\ \A a, b \in discord_threads : a.thread_id = b.thread_id => a = b
  /\ \A r \in Runs : \A k \in 1..Len(run[r].written) :
       \A row \in discord_threads :
         row.thread_id = run[r].written[k].thread_id =>
           \A c \in FetchedColumns : row[c] = run[r].written[k][c]

\* C6: when the store write of the k-th thread fails, the rows upserted
\* for threads 1..k-1 are in discord_threads at the end of the run.
C6_PriorRowsKept ==
  \A r \in Runs :
    StoreFailed(r) =>
      /\ Len(run[r].written) = run[r].i - 1
      /\ \A k \in 1..Len(run[r].written) :
           /\ run[r].written[k] =
                StoredRow(run[r].activeThreads[k], run[r].memberMap)
           /\ run[r].written[k] \in discord_threads

\* The write of the third thread failed after two threads had been upserted.
C6_Witness ==
  \E r \in Runs : StoreFailed(r) /\ run[r].i >= 3

\* C7: every thread row written has a non-null last_updated.
C7_LastUpdatedSet ==
  \A row \in discord_threads : row.last_updated # Null

\* Failures that reach the catch of handleScheduled.
FatalFailures == {"client", "fetch", "store"}

\* Member resolution of run r has returned after its first page request
\* failed with Missing Access.
NoAccessOnFirstPage(r) ==
  /\ run[r].pc \notin {"idle", "members"}
  /\ "membersAccess" \in run[r].failed
  /\ run[r].pagesFetched = 0

MembersOfPages(guildUids, n) ==
  LET last == IF n * PageSize < Len(guildUids) THEN n * PageSize
              ELSE Len(guildUids)
      uids == { guildUids[k] : k \in 1..last }
  IN [ s \in { Snowflake(u) : u \in { v \in uids : HasUser(v) } } |->
         IF HasNick(s.snowflake) THEN [nick |-> s.snowflake]
                                 ELSE [username |-> s.snowflake] ]

\* A page request of the member resolution of run r failed.
MemberRequestFailed(r) == run[r].failed \cap {"members", "membersAccess"} # {}

\* C9: fetchAllGuildMembers never raises: when a page request fails after
\* n pages were fetched, the loop is over, the function has returned the
\* members of those n pages, and nothing was recorded in results.
C9_PartialMapNeverRaises ==
  \A r \in Runs :
    /\ (MemberRequestFailed(r) /\ run[r].pc = "threads") =>
         /\ ~run[r].hasMore
         /\ run[r].memberMap = MembersOfPages(run[r].guild, run[r].pagesFetched)
         /\ run[r].results = NoResults
    /\ (MemberRequestFailed(r) /\ run[r].failed \cap FatalFailures = {}) =>
         /\ run[r].pc # "members"
         /\ run[r].results.success
         /\ run[r].results.errors = << >>

\* A page request failed after one full page had been stored.
C9_Witness ==
  \E r \in Runs :
    /\ MemberRequestFailed(r) /\ run[r].pc = "threads"
    /\ run[r].pagesFetched >= 1
    /\ run[r].memberMap # << >>

\* C10: an iteration of the member loop ends the loop exactly when the
\* page has fewer items than the page size (zero included) or the request
\* failed; otherwise a further request is issued.
C10_StopsExactlyWhen ==
  [][ \A r \in Runs :
        (run[r].pc = "members" /\ run'[r] # run[r]) =>
          LET page     == GuildPage(run[r].guild, run[r].lastId)
              rejected == run'[r].failed \cap {"members", "membersAccess"} # {}
              empty    == "notArray" \in run'[r].failed
          IN (run'[r].pc # "members") <=>
               (rejected \/ empty \/ Len(page) < PageSize) ]_vars

\* The thread of the batch of run r that the latest INSERT was bound for.
LatestThread(r) ==
  IF "store" \in run[r].failed THEN run[r].activeThreads[run[r].i]
  ELSE run[r].activeThreads[run[r].i - 1]

\* v is the member map's entry for the owner of the thread when the thread
\* has an owner that is a key of the map, and null otherwise.
IsOwnerEntry(v, thread, memberMap) ==
  IF thread.owner_id \notin {Undefined, Null}
     /\ thread.owner_id \in DOMAIN memberMap
  THEN v = memberMap[thread.owner_id]
  ELSE v = Null

\* C11: the owner_nickname of a stored row, and of the record bound to an
\* INSERT, is the member map's entry for the thread's owner_id when the
\* owner_id is present and a key of the map, and null otherwise.
C11_OwnerNicknameFromMap ==
  \A r \in Runs :
    /\ \A k \in 1..Len(run[r].written) :
         IsOwnerEntry(run[r].written[k].owner_nickname,
                      run[r].activeThreads[k], run[r].memberMap)
    /\ run[r].record # << >> =>
         IsOwnerEntry(run[r].record.owner_nickname,
                      LatestThread(r), run[r].memberMap)

\* A run stored a thread whose owner is in the map and one whose owner is
\* not, and then bound the record of a thread without owner_id.
C11_Witness ==
  \E r \in Runs :
    /\ \E k \in 1..Len(run[r].written) : run[r].written[k].owner_nickname # Null
    /\ \E k \in 1..Len(run[r].written) :
         /\ run[r].written[k].owner_nickname = Null
         /\ run[r].written[k].owner_id # Null
    /\ run[r].record # << >>
    /\ run[r].record.owner_id = Undefined
    /\ run[r].record.owner_nickname = Null

\* The fields a raw thread may lack.
OptionalFields ==
  { "topic", "owner_id", "parent_id", "available_tags", "applied_tags",
    "thread_metadata" }

\* C12: each optional field that is absent on the raw thread is bound to
\* the INSERT as null, and member_count and message_count are bound as
\* received.
C12_AbsentStoredAsNull ==
  \A r \in Runs :
    run[r].record # << >> =>
      LET thread == LatestThread(r)
          record == run[r].record
      IN /\ \A f \in OptionalFields :
              thread[f] = Undefined => record[f] = Null
         /\ record.member_count = thread.member_count
         /\ record.message_count = thread.message_count

\* The request for the metadata of the channel failed, or the channel has
\* no tags.
Skipped(channel) == ~channel.ok \/ channel.available_tags = << >>

\* Both DELETE statements of run r were executed.
TablesCleared(r) == run[r].failed \cap {"clear", "clearTags"} = {}

\* C13: a channel whose metadata request fails or that has no tags
\* contributes no row to discord_channel_tags, adds no entry to errors,
\* leaves success true, and the channels after it are still processed.
C13_SkippedChannelIsHarmless ==
  \A r \in Runs :
    \A k \in 1..Len(run[r].channels) :
      Skipped(run[r].channels[k]) =>
        /\ TablesCleared(r) =>
             \A row \in discord_channel_tags :
               row.parent_id # run[r].channels[k].id
        /\ run[r].results.success
        /\ run[r].results.errors = << >>
        /\ run[r].pc = "done" =>
             Len(run[r].channels) = Len(run[r].uniqueParentIds)
        /\ (k = Len(run[r].channels) /\ k < Len(run[r].uniqueParentIds)) =>
             run[r].pc = "channel" /\ run[r].ch = k + 1

\* The request for the first channel failed and the tags of the second
\* channel were stored.
C13_Witness ==
  \E r \in Runs :
    /\ run[r].pc = "done"
    /\ Len(run[r].channels) = 2
    /\ ~run[r].channels[1].ok
    /\ run[r].channels[2].available_tags # << >>
    /\ TablesCleared(r)
    /\ \E row \in discord_channel_tags : row.parent_id = run[r].channels[2].id

\* The table holds a row for the tag of the channel.
HasTag(table, parent_id, tag_id) ==
  \E row \in table : row.parent_id = parent_id /\ row.tag_id = tag_id

\* C14 as claimed: no step removes a row of discord_channel_tags.
C14_TagRowsNeverDeleted ==
  [][ \A row \in discord_channel_tags :
        HasTag(discord_channel_tags', row.parent_id, row.tag_id) ]_vars

\* C14: a row of discord_channel_tags is removed only by the DELETE FROM
\* discord_channel_tags of the clear step of a run, and not when that
\* statement fails; the upsert of a tag removes no row.
C14_TagRowsDeletedOnlyByClear ==
  [][ \A row \in discord_channel_tags :
        ~HasTag(discord_channel_tags', row.parent_id, row.tag_id) =>
          \E r \in Runs : /\ run[r].pc = "clearTags"
                          /\ run'[r].pc = "members"
                          /\ "clearTags" \notin run'[r].failed ]_vars

\* A run that did not clear the tags and fetched the taxonomy [bug] of
\* channel c2 has ended, and the row of the tag help, which an earlier run
\* wrote for c2, is still in the table next to the row of bug.
C14_Witness ==
  \E r \in Runs :
    /\ run[r].pc = "done"
    /\ ~TablesCleared(r)
    /\ \E k \in 1..Len(run[r].channels) :
         /\ run[r].channels[k].id = Str("c2")
         /\ run[r].channels[k].available_tags = <<TagBug>>
    /\ "tag" \notin run[r].failed
    /\ \E row \in discord_channel_tags :
         row.parent_id = Str("c2") /\ row.tag_id = TagBug.id /\ row.tag_name = TagBug.name
    /\ HasTag(discord_channel_tags, Str("c2"), TagHelp.id)

\* The calls of a run that can fail: the construction of the client, the
\* requests to the remote and the statements of the store.
CallFailures ==
  { "client", "clear", "clearTags", "members", "membersAccess", "fetch",
    "store", "channel", "tag" }

\* Run r has returned and none of its calls failed.
ReturnedWithoutFailure(r) ==
  run[r].pc = "done" /\ run[r].failed \cap CallFailures = {}

\* The distinct parent channels of the threads of the fetch of run r.
ParentsOfFetch(r) ==
  { run[r].activeThreads[j].parent_id : j \in 1..Len(run[r].activeThreads) }
    \ {Undefined, Null}

\* The row of discord_channel_tags for a tag of a channel: tag_emoji is the
\* name of the emoji, null for a tag without emoji.
TagRow(parent_id, tag) ==
  [ parent_id |-> parent_id, tag_id |-> tag.id, tag_name |-> tag.name,
    tag_emoji |-> IF tag.emoji = Undefined THEN Null ELSE tag.emoji.name ]

\* The rows for the taxonomies the remote returned to run r.
TagRowsOfRun(r) ==
  UNION { { TagRow(run[r].channels[k].id, run[r].channels[k].available_tags[n]) :
              n \in 1..Len(run[r].channels[k].available_tags) } :
            k \in 1..Len(run[r].channels) }

\* C15: a run in which no call fails returns success = true, no errors and
\* the number of fetched threads; discord_threads holds one row per fetched
\* thread, and discord_channel_tags exactly one row for every tag of every
\* distinct parent channel of the fetch, with tag_emoji null for a tag
\* without emoji.
C15_AllSucceed ==
  \A r \in Runs :
    ReturnedWithoutFailure(r) =>
      /\ run[r].results = [ success |-> TRUE, errors |-> << >>,
                            threadsProcessed |-> Len(run[r].activeThreads) ]
      /\ Cardinality(discord_threads) = Len(run[r].activeThreads)
      /\ \A j \in 1..Len(run[r].activeThreads) :
           \E row \in discord_threads :
             row.thread_id = run[r].activeThreads[j].id
      /\ { run[r].channels[k].id : k \in 1..Len(run[r].channels) }
           = ParentsOfFetch(r)
      /\ Len(run[r].channels) = Cardinality(ParentsOfFetch(r))
      /\ discord_channel_tags = TagRowsOfRun(r)
      /\ \A c \in ParentsOfFetch(r), tag1, tag2 \in discord_channel_tags :
           (tag1.parent_id = c /\ tag2.parent_id = c /\ tag1.tag_id = tag2.tag_id)
             => tag1 = tag2

\* A run without failure stored two threads of two channels, one without
\* tags and one with the tags defect and help.
C15_Witness ==
  \E r \in Runs :
    /\ ReturnedWithoutFailure(r)
    /\ Len(run[r].activeThreads) >= 2
    /\ ParentsOfFetch(r) = {Str("c1"), Str("c2")}
    /\ Cardinality(discord_channel_tags) = 2
    /\ \E row \in discord_channel_tags : row.tag_emoji = Null

\* The active-thread fetch of run r failed.
FetchFailed(r) == "fetch" \in run[r].failed

\* C16: when the active-thread fetch fails the run is over: it returns
\* success = false, threadsProcessed = 0 and one error that holds the
\* message of the failure, it has bound no thread and requested no channel,
\* and no row is written to either table after the failure.
C16_FetchFailureAborts ==
  /\ [](\A r \in Runs :
          FetchFailed(r) =>
            /\ run[r].pc = "done"
            /\ ~run[r].results.success
            /\ run[r].results.threadsProcessed = 0
            /\ Len(run[r].results.errors) = 1
            /\ \E msg \in RemoteErrors :
                 run[r].results.errors[1] = [message |-> Str(msg)]
            /\ run[r].written = << >>
            /\ run[r].record = << >>
            /\ run[r].channels = << >>
            /\ TablesCleared(r) =>
                 discord_threads = {} /\ discord_channel_tags = {})
  /\ [][ (\E r \in SerialRuns : FetchFailed(r)) =>
           UNCHANGED <<discord_threads, discord_channel_tags>> ]_vars

\* The fetch failed in a run that had deleted earlier rows and resolved
\* members.
C16_Witness ==
  \E r \in Runs :
    /\ FetchFailed(r)
    /\ run[r].cleared
    /\ run[r].memberMap # << >>

\* C17: the fetch handler answers with status 200 and the serialized
\* result whenever handleScheduled has returned a result, also one with
\* success = false or with errors; handleScheduled raises in no run, so
\* no answer has status 500.
C17_RespondsWithResult ==
  \A r \in Runs :
    run[r].pc = "responded" =>
      /\ run[r].response.status = 200
      /\ run[r].response.body.text = run[r].results
      /\ DOMAIN run[r].results = {"success", "threadsProcessed", "errors"}

\* The fetch handler has answered for a run that returned success = false
\* and an error.
C17_Witness ==
  \E r \in Runs :
    /\ run[r].pc = "responded"
    /\ ~run[r].results.success
    /\ run[r].results.errors # << >>

\* The position of a step of handleScheduled in the order of its steps:
\* clear, member resolution, active-thread fetch, per-thread loop, tag
\* synchronization, return.
StepOrder(pc) ==
  CASE pc = "idle"                    -> 0
    [] pc \in {"clearThreads", "clearTags"} -> 1
    [] pc = "members"                 -> 2
    [] pc = "threads"                 -> 3
    [] pc = "loop"                    -> 4
    [] pc \in {"channel", "tag"}      -> 5
    [] pc = "done"                    -> 6
    [] pc = "responded"               -> 7

\* C19: the steps of a run happen in order. A run never goes back to an
\* earlier step; a thread row is written only in the per-thread loop, after
\* the clear step; a member page is requested only before the active
\* threads are fetched; channel metadata is fetched and a tag row written
\* only when every thread of the fetch has been upserted; and the run
\* returns from the tag synchronization only after the last channel.
C19_StepsInOrder ==
  [][ \A r \in SerialRuns :
        LET l       == run[r]
            running == run'[r].pc \notin {"idle", "responded"}
        IN /\ run'[r].pc # "idle" => StepOrder(run'[r].pc) >= StepOrder(l.pc)
           /\ (discord_threads' \ discord_threads # {}) =>
                StepOrder(l.pc) = 4
           /\ (running /\ run'[r].pagesFetched # l.pagesFetched) =>
                StepOrder(l.pc) = 2
           /\ (running /\ run'[r].activeThreads # l.activeThreads) =>
                ~l.hasMore /\ StepOrder(l.pc) = 3
           /\ (\/ running /\ run'[r].channels # l.channels
               \/ discord_channel_tags' \ discord_channel_tags # {}) =>
                /\ StepOrder(l.pc) = 5
                /\ Len(l.written) = Len(l.activeThreads)
           /\ (StepOrder(l.pc) = 5 /\ run'[r].pc = "done") =>
                /\ l.ch = Len(l.uniqueParentIds)
                /\ Len(run'[r].channels) = Len(l.uniqueParentIds) ]_vars

\* A run has gone through every step: it deleted earlier rows, stored a
\* member page, upserted two threads, requested two channels, stored a
\* tag and returned.
C19_Witness ==
  \E r \in Runs :
    /\ run[r].pc = "done"
    /\ run[r].cleared
    /\ run[r].pagesFetched >= 1
    /\ Len(run[r].written) >= 2
    /\ Len(run[r].channels) = 2
    /\ discord_channel_tags # {}

\* The distinct parent channels of the threads run r has upserted.
ParentsOfUpserted(r) ==
  { run[r].activeThreads[j].parent_id : j \in 1..Len(run[r].written) }
    \ {Undefined, Null}

\* C20: a run whose active-thread fetch succeeded has, when it returns,
\* requested the metadata of each distinct parent channel of the threads
\* it upserted exactly once, also when the upsert of a thread failed.
C20_TagSyncAfterLoop ==
  \A r \in Runs :
    (run[r].pc = "done" /\ run[r].failed \cap {"client", "fetch"} = {}) =>
      /\ { run[r].channels[k].id : k \in 1..Len(run[r].channels) }
           = ParentsOfUpserted(r)
      /\ Len(run[r].channels) = Cardinality(ParentsOfUpserted(r))

\* Both invocations have returned, each after a non-empty fetch and
\* without a failed call.
BothReturned ==
  \A r \in Runs : ReturnedWithoutFailure(r) /\ run[r].activeThreads # << >>

\* After two overlapping invocations discord_threads is not empty and
\* holds one row per thread_id: each invocation upserts its fetch after its
\* own DELETE, so the last statement on the table is an upsert, and the
\* primary key keeps the rows apart.
OverlapNeitherEmptyNorDuplicated ==
  BothReturned =>
    /\ discord_threads # {}
    /\ \A row1, row2 \in discord_threads :
         row1.thread_id = row2.thread_id => row1 = row2

\* What the overlap can leave behind: a table that mirrors the fetch of
\* neither invocation.
OverlapMirrorsNeither ==
  BothReturned /\ \A r \in Runs : ~MirrorsFetch(r)

\* The user id of the last member of the page the remote serves after a
\* cursor; undefined when the page is empty or that member has no user
\* record.
LastOfPage(guildUids, after) ==
  LET page == GuildPage(guildUids, after)
  IN IF Len(page) > 0 /\ Truthy(page[Len(page)].user)
     THEN page[Len(page)].user.id
     ELSE Undefined

\* C21: the first member request uses the cursor '0', every request asks
\* for the page size, and the cursor of each later request is the user id
\* of the last member of the page before it, so that the cursors grow and
\* no page is asked for twice.
C21_CursorProtocol ==
  \A r \in Runs :
    LET requests == run[r].requests
    IN /\ requests # << >> => requests[1].after = Snowflake(0)
       /\ \A k \in 1..Len(requests) : requests[k].limit = PageSize
       /\ \A k \in 2..Len(requests) :
            /\ requests[k].after = LastOfPage(run[r].guild, requests[k - 1].after)
            /\ requests[k].after.snowflake > requests[k - 1].after.snowflake
       /\ run[r].pc = "members" =>
            Len(requests) = run[r].pagesFetched

\* A second page was requested after a full first page.
C21_Witness ==
  \E r \in Runs :
    /\ Len(run[r].requests) >= 2
    /\ run[r].requests[2].after # Snowflake(0)
    /\ run[r].pagesFetched >= 1

\* The map with one entry per member of the guild that has a user record:
\* the nickname when the member has one, else the username.
MapOfGuild(guildUids) ==
  [ s \in { Snowflake(guildUids[k]) :
              k \in { j \in 1..Len(guildUids) : HasUser(guildUids[j]) } } |->
      IF HasNick(s.snowflake) THEN [nick |-> s.snowflake]
                              ELSE [username |-> s.snowflake] ]

\* C22: when no page request failed and every response was an array, the
\* map fetchAllGuildMembers returns has exactly one entry per member of
\* the guild that has a user record: its nickname when present, its
\* username otherwise.
C22_MapCoversGuild ==
  \A r \in Runs :
    (/\ run[r].pc = "threads"
     /\ run[r].failed \cap {"members", "membersAccess", "notArray"} = {}) =>
      run[r].memberMap = MapOfGuild(run[r].guild)

\* The channels of run r, in the order of their requests, in which the
\* request or the upsert of a thread failed.
FailedChannels(r) == SelectSeq(run[r].channels, LAMBDA c : ~c.ok)

\* C23: in the channel-list driver each channel in which the request or an
\* upsert failed has its entry in errors, with the channel's id and the
\* message; success stays true, and the channels after it are still
\* requested and processed.
C23_ChannelFailureRecorded ==
  \A r \in Runs :
    LET l      == run[r]
        failed == FailedChannels(r)
    IN (l.pc \in {"channel002", "loop002", "done"} /\ l.channels # << >>) =>
         /\ l.results.success
         /\ Len(l.results.errors) = Len(failed)
         /\ \A j \in 1..Len(failed) :
              /\ DOMAIN l.results.errors[j] = {"channelId", "message"}
              /\ l.results.errors[j].channelId = failed[j].id
              /\ \E msg \in ChannelThreadsErrors \cup StoreErrors :
                   l.results.errors[j].message = Str(msg)
         /\ \A k \in 1..Len(l.channels) :
              l.channels[k].id = l.forumChannelIds[k]
         /\ l.pc = "done" => Len(l.channels) = Len(l.forumChannelIds)
         /\ (~l.channels[Len(l.channels)].ok
               /\ Len(l.channels) < Len(l.forumChannelIds)) =>
              l.pc = "channel002" /\ l.ch = Len(l.channels) + 1

\* The upsert of the second thread of the first channel failed, a thread
\* of the second channel was stored, and the run has returned.
C23_Witness ==
  \E r \in Runs :
    /\ run[r].pc = "done"
    /\ Len(run[r].channels) = 2
    /\ ~run[r].channels[1].ok /\ run[r].channels[2].ok
    /\ run[r].failed = {"store"}
    /\ run[r].results.threadsProcessed >= 2

\* The thread is in the fetch of run r.
InFetch(r, thread_id) ==
  \E j \in 1..Len(run[r].activeThreads) : run[r].activeThreads[j].id = thread_id

\* C24: no step of the upsert-only driver removes a thread row: every
\* thread_id of discord_threads stays in it, and the row of a thread that
\* is not in the fetch of the run stays as it is.
C24_NoRowRemoved ==
  [][ \A row \in discord_threads :
        /\ \E new \in discord_threads' : new.thread_id = row.thread_id
        /\ (\A r \in SerialRuns : ~InFetch(r, row.thread_id)) =>
             row \in discord_threads' ]_vars

\* A run that stored a thread has returned, and the table still holds the
\* row of a thread of an earlier run that is not in its fetch.
C24_Witness ==
  \E r \in Runs :
    /\ run[r].pc = "done"
    /\ run[r].written # << >>
    /\ \E row \in discord_threads : ~InFetch(r, row.thread_id)

\* A DELETE of the clear step of run r failed.
ClearFailed(r) == run[r].failed \cap {"clear", "clearTags"} # {}

\* C25: a failed DELETE of the clear step does not end the run and is not
\* reported. The step in which it fails leaves the tables and results as
\* they are and leads to the member resolution, so that the second DELETE
\* is not attempted after a failure of the first; and unless a later call
\* fails, the run returns success = true and no error.
C25_ClearFailureIgnored ==
  /\ [](\A r \in Runs :
          /\ ClearFailed(r) => Cardinality(run[r].failed \cap {"clear", "clearTags"}) = 1
          /\ (ClearFailed(r) /\ run[r].failed \cap FatalFailures = {}) =>
               /\ run[r].results.success
               /\ run[r].results.errors = << >>)
  /\ [][ \A r \in SerialRuns :
           (~ClearFailed(r) /\ run'[r].pc # "idle"
              /\ run'[r].failed \cap {"clear", "clearTags"} # {}) =>
             /\ run[r].pc \in {"clearThreads", "clearTags"}
             /\ run'[r].pc = "members"
             /\ run'[r].results = NoResults
             /\ UNCHANGED <<discord_threads, discord_channel_tags>> ]_vars

\* The first DELETE failed in a run that then stored a member page and a
\* thread next to an earlier row, requested a channel and returned success.
C25_Witness ==
  \E r \in Runs :
    /\ run[r].pc = "done"
    /\ "clear" \in run[r].failed
    /\ run[r].results.success
    /\ run[r].memberMap # << >>
    /\ run[r].written # << >>
    /\ run[r].channels # << >>
    /\ Cardinality(discord_threads) > Len(run[r].written)

\* C26: in every result handleScheduled returns, success is true exactly
\* when errors is empty, errors has at most one entry, and threadsProcessed
\* is the number of upserts that completed: the length of the prefix of the
\* fetch before the first thread whose upsert failed.
C26_ResultIsConsistent ==
  \A r \in Runs :
    run[r].pc = "done" =>
      /\ run[r].results.success <=> run[r].results.errors = << >>
      /\ Len(run[r].results.errors) <= 1
      /\ run[r].results.threadsProcessed = Len(run[r].written)
      /\ \A k \in 1..Len(run[r].written) :
           run[r].written[k].thread_id = run[r].activeThreads[k].id
      /\ Len(run[r].written) =
           IF "store" \in run[r].failed THEN run[r].i - 1
           ELSE Len(run[r].activeThreads)

\* A run returned success = false and one error after two upserts.
C26_Witness ==
  \E r \in Runs :
    /\ run[r].pc = "done"
    /\ ~run[r].results.success
    /\ Len(run[r].results.errors) = 1
    /\ run[r].results.threadsProcessed = 2
    /\ Len(run[r].activeThreads) = 3

====
